---- MODULE Spec2Model ----
(***************************************************************************)
(* A model of the Lexer of llll.py: Lexer.tokenize and the four routines   *)
(* it calls (discard_comment, read_atom, read_str, read_num).              *)
(*                                                                         *)
(* A Python str is modelled as a sequence of strings.  The buffer and the  *)
(* text of a token hold one character per element; the diagnostic of an    *)
(* ERR token is a sequence of one element, the message.  The cursor i is   *)
(* 0-based as in the source, so chars[i] of the source is chars[i + 1]     *)
(* here, and chars[i] with i = len(chars) raises IndexError.               *)
(***************************************************************************)
EXTENDS Integers, Sequences, FiniteSets, TLC

\* ------------------------------------------------------------- bounds --
\* Longest generated buffer.
MaxLen == 4

\* The characters generated buffers are made of: one or two of each class
\* of the dispatch table, and "[" for a character no rule matches.
Alphabet == {"\n", " ", ";", "(", ")", "'", "a", ".", "\"", "4", "["}

\* The spec's worked examples and a few more buffers (a two-line string, a
\* newline, a bracket; a string that ends in a backslash; runs that hold
\* ";" and "'"), scanned in addition to the generated buffers.
Examples ==
    { <<"(", "f", "o", "o", ")">>,
      <<";", " ", "c", "o", "m", "m", "e", "n", "t", "\n", "(", "a", ")">>,
      <<"\"", "h", "e", "l", "l", "o", "\n", "w", "o", "r", "l", "d", "\"">>,
      <<"\"", "\n", "\"", "\n", "(">>,
      <<"\"", "\\", "\"", "a", "\"">>,
      <<"a", ";", "b", " ">>,
      <<"1", "'", "2", " ">>,
      <<"4", "2">>,
      <<"4", "a">>,
      <<"'", "x">> }

Buffers == UNION { [1..n -> Alphabet] : n \in 0..MaxLen } \cup Examples

\* ----------------------------------------------------- character sets --
Letters ==
    { "a", "b", "c", "d", "e", "f", "g", "h", "i", "j", "k", "l", "m",
      "n", "o", "p", "q", "r", "s", "t", "u", "v", "w", "x", "y", "z",
      "A", "B", "C", "D", "E", "F", "G", "H", "I", "J", "K", "L", "M",
      "N", "O", "P", "Q", "R", "S", "T", "U", "V", "W", "X", "Y", "Z" }

\* atom_start_chars of tokenize.
atom_start_chars ==
    Letters \cup { "#", "+", "-", "*", "=", "/", "%", "<", ">", "!", "&",
                   "|", "^", "~", "?" }

\* str_start_chars of tokenize.
str_start_chars == { "\"" }

\* num_start_chars of tokenize.
num_start_chars == { "0", "1", "2", "3", "4", "5", "6", "7", "8", "9" }

\* char.isspace(), for the white space a TLA+ string can hold.
isspace(char) == char \in { " ", "\t", "\n", "\r", "\f" }

\* The two diagnostics.
AtomErrMsg == << "Atoms cannot contain quotes or numbers" >>
NumErrMsg == << "Numbers cannot contain anything other than numerals and periods" >>

\* Token(type, value, line) of the dataclass.
Token(type, value, ln) == [type |-> type, value |-> value, line |-> ln]

\* What a routine hands back: the returned cursor and token, the value of
\* self.line when it ends, and whether it ended in IndexError instead of
\* returning (then i is the index that was out of range and tok is unused).
Returned(i, tok, self_line) ==
    [raised |-> FALSE, i |-> i, tok |-> tok, line |-> self_line]
IndexError(i, self_line) ==
    [raised |-> TRUE, i |-> i, tok |-> Token("ERR", <<>>, 0), line |-> self_line]

\* ------------------------------------------------------- the routines --
\* discard_comment, were it to step over the newline it stops at.
RECURSIVE discard_comment_past_newline(_, _, _)
discard_comment_past_newline(self_line, i, chars) ==
    IF i >= Len(chars) THEN IndexError(i, self_line)
    ELSE LET char == chars[i + 1] IN
         IF char # "\n" THEN discard_comment_past_newline(self_line, i + 1, chars)
         ELSE Returned(i + 1, Token("ERR", <<>>, 0), self_line)

\* The loop of discard_comment: the cursor it returns, the newline's.
RECURSIVE discard_comment(_, _, _)
discard_comment(self_line, i, chars) ==
    IF i >= Len(chars) THEN IndexError(i, self_line)
    ELSE LET char == chars[i + 1] IN
         IF char # "\n" THEN discard_comment(self_line, i + 1, chars)
         ELSE Returned(i, Token("ERR", <<>>, 0), self_line)

\* The loop of read_atom, were it to step over the terminator it stops at.
RECURSIVE atom_loop_past(_, _, _, _, _, _)
atom_loop_past(self_line, i, atom_str, line_num, atom_err_chars, chars) ==
    IF i >= Len(chars) THEN IndexError(i, self_line)
    ELSE LET char == chars[i + 1] IN
         IF char \in atom_err_chars
         THEN Returned(i, Token("ERR", AtomErrMsg, self_line), self_line)
         ELSE IF isspace(char) \/ char \in {"(", ")", "\n"}
         THEN Returned(i + 1, Token("ATOM", atom_str, self_line), self_line)
         ELSE atom_loop_past(self_line, i + 1, Append(atom_str, char),
                             line_num, atom_err_chars, chars)

\* The loop of read_atom, were a ";" to end the atom as a terminator does.
RECURSIVE atom_loop_semicolon(_, _, _, _, _, _)
atom_loop_semicolon(self_line, i, atom_str, line_num, atom_err_chars, chars) ==
    IF i >= Len(chars) THEN IndexError(i, self_line)
    ELSE LET char == chars[i + 1] IN
         IF char \in atom_err_chars
         THEN Returned(i, Token("ERR", AtomErrMsg, self_line), self_line)
         ELSE IF isspace(char) \/ char \in {"(", ")", "\n", ";"}
         THEN Returned(i, Token("ATOM", atom_str, self_line), self_line)
         ELSE atom_loop_semicolon(self_line, i + 1, Append(atom_str, char),
                                  line_num, atom_err_chars, chars)

\* The loop of read_atom, atom_str being the text accumulated so far.
RECURSIVE atom_loop(_, _, _, _, _, _)
atom_loop(self_line, i, atom_str, line_num, atom_err_chars, chars) ==
    IF i >= Len(chars) THEN IndexError(i, self_line)
    ELSE LET char == chars[i + 1] IN
         IF char \in atom_err_chars
         THEN Returned(i, Token("ERR", AtomErrMsg, self_line), self_line)
         ELSE IF isspace(char) \/ char \in {"(", ")", "\n"}
         THEN Returned(i, Token("ATOM", atom_str, self_line), self_line)
         ELSE atom_loop(self_line, i + 1, Append(atom_str, char), line_num,
                        atom_err_chars, chars)

read_atom(self_line, i, line_num, atom_err_chars, chars) ==
    atom_loop(self_line, i, <<>>, line_num, atom_err_chars, chars)

\* The loop of read_str, were a backslash to take the character after it
\* into the string, a quote included.
RECURSIVE str_loop_escapes(_, _, _, _, _, _)
str_loop_escapes(self_line, i, str_str, line_num, str_termination_char, chars) ==
    IF i >= Len(chars) THEN IndexError(i, self_line)
    ELSE LET char == chars[i + 1] IN
         IF char = "\\" /\ i + 1 < Len(chars)
         THEN str_loop_escapes(self_line, i + 2,
                               str_str \o << char, chars[i + 2] >>, line_num,
                               str_termination_char, chars)
         ELSE IF char \in str_termination_char
         THEN Returned(i + 1, Token("STR", Append(str_str, char), self_line),
                       self_line)
         ELSE IF char = "\n"
         THEN str_loop_escapes(self_line + 1, i + 1, Append(str_str, char),
                               line_num, str_termination_char, chars)
         ELSE str_loop_escapes(self_line, i + 1, Append(str_str, char),
                               line_num, str_termination_char, chars)

\* The loop of read_str: self.line is advanced at every newline, and the
\* token is made with self.line as it is when the closing quote is met.
RECURSIVE str_loop(_, _, _, _, _, _)
str_loop(self_line, i, str_str, line_num, str_termination_char, chars) ==
    IF i >= Len(chars) THEN IndexError(i, self_line)
    ELSE LET char == chars[i + 1] IN
         IF char \in str_termination_char
         THEN Returned(i + 1, Token("STR", Append(str_str, char), self_line),
                       self_line)
         ELSE IF char = "\n"
         THEN str_loop(self_line + 1, i + 1, Append(str_str, char), line_num,
                       str_termination_char, chars)
         ELSE str_loop(self_line, i + 1, Append(str_str, char), line_num,
                       str_termination_char, chars)

\* read_str, were it to count the newlines in its argument line_num and
\* leave self.line as it found it.
read_str_local(self_line, i, line_num, str_termination_char, chars) ==
    LET r == str_loop(self_line, i + 1, << chars[i + 1] >>, line_num,
                      str_termination_char, chars)
    IN  [r EXCEPT !.line = self_line]

\* read_str: the opening quote is taken before the loop.
read_str(self_line, i, line_num, str_termination_char, chars) ==
    str_loop(self_line, i + 1, << chars[i + 1] >>, line_num,
             str_termination_char, chars)

\* The loop of read_num, were its error path to step over the character it
\* rejects.
RECURSIVE num_loop_skip(_, _, _, _, _, _)
num_loop_skip(self_line, i, num_str, line_num, num_error_chars, chars) ==
    IF i >= Len(chars) THEN IndexError(i, self_line)
    ELSE LET char == chars[i + 1] IN
         IF char \in num_error_chars
         THEN Returned(i + 1, Token("ERR", NumErrMsg, self_line), self_line)
         ELSE IF isspace(char) \/ char \in {"(", ")", "\n"}
         THEN Returned(i, Token("NUM", num_str, self_line), self_line)
         ELSE num_loop_skip(self_line, i + 1, Append(num_str, char), line_num,
                            num_error_chars, chars)

\* The loop of read_num.
RECURSIVE num_loop(_, _, _, _, _, _)
num_loop(self_line, i, num_str, line_num, num_error_chars, chars) ==
    IF i >= Len(chars) THEN IndexError(i, self_line)
    ELSE LET char == chars[i + 1] IN
         IF char \in num_error_chars
         THEN Returned(i, Token("ERR", NumErrMsg, self_line), self_line)
         ELSE IF isspace(char) \/ char \in {"(", ")", "\n"}
         THEN Returned(i, Token("NUM", num_str, self_line), self_line)
         ELSE num_loop(self_line, i + 1, Append(num_str, char), line_num,
                       num_error_chars, chars)

read_num(self_line, i, line_num, num_error_chars, chars) ==
    num_loop(self_line, i, <<>>, line_num, num_error_chars, chars)

\* -------------------------------------------------------------- state --
VARIABLES
    text,      \* self.text, and chars of tokenize
    i,         \* the cursor of tokenize
    line,      \* self.line
    tokens,    \* self.tokens
    pc,        \* "head": at the while test; "body": at the if chain;
               \* "done": tokenize returned self.tokens;
               \* "raised": tokenize ended in IndexError
    starts,    \* history: the cursor at which each token's scan began
    cmtLine,   \* history: self.line at the latest discard_comment call, 0
               \* when there was none
    cmtEnd,    \* history: the cursor that call returned
    run,       \* which Lexer instance is scanning: the first or the second
    first      \* how the first instance's tokenize ended, and its tokens

vars == << text, i, line, tokens, pc, starts, cmtLine, cmtEnd, run, first >>

\* No instance has ended yet.
NoOutcome == [pc |-> "none", tokens |-> <<>>]

\* Lexer(text), and tokenize up to its loop.
Init ==
    /\ text \in Buffers
    /\ i = 0
    /\ line = 1
    /\ tokens = <<>>
    /\ pc = "head"
    /\ starts = <<>>
    /\ cmtLine = 0
    /\ cmtEnd = 0
    /\ run = 1
    /\ first = NoOutcome

\* The character under the cursor in the loop body.
char == text[i + 1]

\* while i < len(chars): ... return self.tokens
LoopTest ==
    /\ pc = "head"
    /\ pc' = IF i < Len(text) THEN "body" ELSE "done"
    /\ UNCHANGED << run, first, text, i, line, tokens, starts, cmtLine,
                    cmtEnd >>

\* if char == "\n"
Newline ==
    /\ pc = "body"
    /\ char = "\n"
    /\ line' = line + 1
    /\ i' = i + 1
    /\ pc' = "head"
    /\ UNCHANGED << run, first, text, tokens, starts, cmtLine, cmtEnd >>

\* elif char.isspace()
Space ==
    /\ pc = "body"
    /\ char # "\n"
    /\ isspace(char)
    /\ i' = i + 1
    /\ pc' = "head"
    /\ UNCHANGED << run, first, text, line, tokens, starts, cmtLine, cmtEnd >>

\* elif char == ";"
Comment ==
    /\ pc = "body"
    /\ char = ";"
    /\ LET r == discard_comment(line, i, text) IN
         /\ i' = r.i
         /\ pc' = IF r.raised THEN "raised" ELSE "head"
         /\ cmtLine' = IF r.raised THEN cmtLine ELSE line
         /\ cmtEnd' = IF r.raised THEN cmtEnd ELSE r.i
    /\ UNCHANGED << run, first, text, line, tokens, starts >>

\* Emit, were it to put the token at the front of the list.
EmitAtFront(tok) ==
    /\ tokens' = << tok >> \o tokens
    /\ starts' = << i >> \o starts
    /\ i' = i + 1
    /\ pc' = "head"
    /\ UNCHANGED << run, first, text, line, cmtLine, cmtEnd >>

\* What tokenize does with the token a direct rule makes.
Emit(tok) ==
    /\ tokens' = Append(tokens, tok)
    /\ starts' = Append(starts, i)
    /\ i' = i + 1
    /\ pc' = "head"
    /\ UNCHANGED << run, first, text, line, cmtLine, cmtEnd >>

\* elif char == "("
ParenOpen ==
    /\ pc = "body"
    /\ char = "("
    /\ Emit(Token("PAREN_OPEN", << "(" >>, line))

\* The ")" branch, were it to make the token of the "(" branch.
ParenCloseAsOpen ==
    /\ pc = "body"
    /\ char = ")"
    /\ Emit(Token("PAREN_OPEN", << "(" >>, line))

\* elif char == ")"
ParenClose ==
    /\ pc = "body"
    /\ char = ")"
    /\ Emit(Token("PAREN_CLOSE", << ")" >>, line))

\* elif char == "'"
Quote ==
    /\ pc = "body"
    /\ char = "'"
    /\ Emit(Token("ATOM", << "'" >>, line))

\* What tokenize does with what a sub-scanner hands back: i and the token
\* are assigned only when the call returns.
Scanned(r) ==
    /\ line' = r.line
    /\ i' = r.i
    /\ pc' = IF r.raised THEN "raised" ELSE "head"
    /\ tokens' = IF r.raised THEN tokens ELSE Append(tokens, r.tok)
    /\ starts' = IF r.raised THEN starts ELSE Append(starts, i)
    /\ UNCHANGED << run, first, text, cmtLine, cmtEnd >>

\* The atom branch, were it to pass read_atom the quote alone as error
\* characters.
AtomAllowingDigits ==
    /\ pc = "body"
    /\ char \in atom_start_chars \/ char = "."
    /\ Scanned(read_atom(line, i, line, str_start_chars, text))

\* The atom branch, were it to pass read_atom the error characters of the
\* number branch.
AtomWithNumErrChars ==
    /\ pc = "body"
    /\ char \in atom_start_chars \/ char = "."
    /\ Scanned(read_atom(line, i, line, atom_start_chars \cup str_start_chars,
                         text))

\* elif char in atom_start_chars or char == "."
Atom ==
    /\ pc = "body"
    /\ char \in atom_start_chars \/ char = "."
    /\ Scanned(read_atom(line, i, line, str_start_chars \cup num_start_chars,
                         text))

\* elif char in str_start_chars
Str ==
    /\ pc = "body"
    /\ char \in str_start_chars
    /\ Scanned(read_str(line, i, line, {char}, text))

\* elif char in num_start_chars
Num ==
    /\ pc = "body"
    /\ char \in num_start_chars
    /\ Scanned(read_num(line, i, line, atom_start_chars \cup str_start_chars,
                        text))

\* The if chain, were it to end with an else branch that steps over the
\* character.
NoRuleSkips ==
    /\ pc = "body"
    /\ ~ (isspace(char) \/ char \in {";", "(", ")", "'", "."})
    /\ char \notin atom_start_chars \cup str_start_chars \cup num_start_chars
    /\ i' = i + 1
    /\ pc' = "head"
    /\ UNCHANGED << run, first, text, line, tokens, starts, cmtLine, cmtEnd >>

\* No branch of the if chain is taken: the body ends with nothing assigned.
NoRule ==
    /\ pc = "body"
    /\ ~ (isspace(char) \/ char \in {";", "(", ")", "'", "."})
    /\ char \notin atom_start_chars \cup str_start_chars \cup num_start_chars
    /\ pc' = "head"
    /\ UNCHANGED << run, first, text, i, line, tokens, starts, cmtLine,
                    cmtEnd >>

Next ==
    \/ LoopTest
    \/ Newline
    \/ Space
    \/ Comment
    \/ ParenOpen
    \/ ParenClose
    \/ Quote
    \/ Atom
    \/ Str
    \/ Num
    \/ NoRule

Spec == Init /\ [][Next]_vars

\* Rescan, were the second instance to share the token list of the first.
RescanSharingTokens ==
    /\ run = 1
    /\ pc \in {"done", "raised"}
    /\ run' = 2
    /\ first' = [pc |-> pc, tokens |-> tokens]
    /\ i' = 0
    /\ line' = 1
    /\ pc' = "head"
    /\ cmtLine' = 0
    /\ cmtEnd' = 0
    /\ UNCHANGED << text, tokens, starts >>

\* Lexer(text) once more, on the same buffer, after the first instance's
\* tokenize has ended: __init__ gives the new instance its own line and
\* tokens, and tokenize its own chars and i.
Rescan ==
    /\ run = 1
    /\ pc \in {"done", "raised"}
    /\ run' = 2
    /\ first' = [pc |-> pc, tokens |-> tokens]
    /\ i' = 0
    /\ line' = 1
    /\ tokens' = <<>>
    /\ pc' = "head"
    /\ starts' = <<>>
    /\ cmtLine' = 0
    /\ cmtEnd' = 0
    /\ UNCHANGED text

\* One scan of the buffer, and then a second one by a fresh instance.
NextTwice == Next \/ Rescan

TwoSpec == Init /\ [][NextTwice]_vars

\* The interpreter runs the loop as long as it can take a step.
FairSpec == Spec /\ WF_vars(Next)

\* ------------------------------------------------------------ helpers --
Last(s) == s[Len(s)]

\* tokenize is over: it returned, or it ended in IndexError.
Ended == pc \in {"done", "raised"}

\* The number of newlines among the characters of s.
NewlineCount(s) == Cardinality({ n \in 1..Len(s) : s[n] = "\n" })

\* The number of newlines of the buffer at the cursors a .. b - 1.
NewlinesIn(a, b) == Cardinality({ n \in a..(b - 1) : text[n + 1] = "\n" })

\* The cursor of the first newline at or after cursor a.
FirstNewline(a) ==
    CHOOSE n \in a..(Len(text) - 1) :
        /\ text[n + 1] = "\n"
        /\ \A m \in a..(n - 1) : text[m + 1] # "\n"

IsTerminator(c) == isspace(c) \/ c \in {"(", ")", "\n"}

HasErr == \E k \in 1..Len(tokens) : tokens[k].type = "ERR"

\* --------------------------------------------------------------- C1 ---
\* C1: for every buffer tokenize terminates: it returns the token list or
\* ends in a hard error; the loop never runs forever.
C1_Terminates == <>Ended

\* --------------------------------------------------------------- C2 ---
\* C2: a Str token carries the line of its opening quote, the value of the
\* line counter when read_str was called, while the counter after the scan
\* is that line plus the number of newlines in the literal.
C2_StrStampedAtOpeningQuote ==
    [][ (pc = "body" /\ char \in str_start_chars /\ pc' = "head")
          => /\ Last(tokens').type = "STR"
             /\ Last(tokens').line = line
             /\ line' = line + NewlineCount(Last(tokens').value) ]_vars

\* --------------------------------------------------------------- C3 ---
\* C3: a scan that reported a malformed atom or number as an Err token
\* does not end in an exception: it goes on and returns the token list.
C3_MalformedNeverRaises == HasErr => pc # "raised"

\* --------------------------------------------------------------- C4 ---
DigitsOnly(s) == Len(s) >= 1 /\ \A n \in 1..Len(s) : s[n] \in num_start_chars

\* C4: scanning a buffer that is only a run of digits yields exactly one
\* token, Num, whose text is the whole run and whose line is 1.
C4_DigitRunIsOneNum ==
    (DigitsOnly(text) /\ Ended)
        => (pc = "done" /\ tokens = << Token("NUM", text, 1) >>)

\* --------------------------------------------------------------- C5 ---
DigitsThenLetter(s) ==
    /\ Len(s) >= 2
    /\ DigitsOnly(SubSeq(s, 1, Len(s) - 1))
    /\ s[Len(s)] \in Letters

\* C5: scanning digits followed by one letter yields exactly one token, an
\* Err with the number diagnostic, and nothing for the letter.
C5_DigitsLetterIsOneErr ==
    (DigitsThenLetter(text) /\ Ended)
        => /\ pc = "done"
           /\ Len(tokens) = 1
           /\ tokens[1].type = "ERR"
           /\ tokens[1].value = NumErrMsg

\* --------------------------------------------------------------- C6 ---
ParensAndSpaceOnly(s) ==
    \A n \in 1..Len(s) : s[n] \in {"(", ")"} \/ isspace(s[n])

IsParen(c) == c \in {"(", ")"}

\* The brackets of s, in source order.
Parens(s) == SelectSeq(s, IsParen)

\* C6: for a buffer of only "(", ")" and white space, tokenize returns one
\* PAREN_OPEN per "(" and one PAREN_CLOSE per ")", in source order, each
\* with its bracket as text, and no other token.
C6_ParensOnly ==
    ParensAndSpaceOnly(text)
        => /\ pc # "raised"
           /\ Len(tokens) <= Len(Parens(text))
           /\ pc = "done" => Len(tokens) = Len(Parens(text))
           /\ \A k \in 1..Len(tokens) :
                /\ tokens[k].value = << Parens(text)[k] >>
                /\ tokens[k].type = IF Parens(text)[k] = "(" THEN "PAREN_OPEN"
                                                            ELSE "PAREN_CLOSE"

C6_Witness ==
    /\ pc = "done"
    /\ ParensAndSpaceOnly(text)
    /\ Len(tokens) = 2
    /\ tokens[1].type = "PAREN_CLOSE"
    /\ tokens[2].type = "PAREN_OPEN"
    /\ \E n \in 1..Len(text) : text[n] = "\n"

\* --------------------------------------------------------------- C7 ---
\* C7: in every state of a scan the lines of the tokens emitted so far are
\* non-decreasing in list order.
C7_LinesMonotone ==
    \A j, k \in 1..Len(tokens) : j <= k => tokens[j].line <= tokens[k].line

\* A Str token that holds a newline, then a newline, then one more token.
C7_Witness ==
    /\ Len(tokens) = 2
    /\ tokens[1].type = "STR"
    /\ tokens[1].line = 2
    /\ tokens[2].line = 3

\* --------------------------------------------------------------- C8 ---
\* The dispatcher is at a ";" and a newline comes later in the buffer.
AtCommentWithNewline ==
    /\ pc = "body"
    /\ char = ";"
    /\ \E n \in i..(Len(text) - 1) : text[n + 1] = "\n"

C9_QuoteIsOwnAtom ==
    [][ /\ (pc = "body" /\ char = "'")
          => /\ tokens' = Append(tokens, Token("ATOM", << "'" >>, line))
             /\ i' = i + 1
        /\ (text = << "'", "x" >> /\ Ended')
          => /\ pc' = "done"
             /\ tokens' = << Token("ATOM", << "'" >>, 1),
                             Token("ATOM", << "x" >>, 1) >> ]_vars

\* -------------------------------------------------------------- C10 ---
\* The dispatcher is about to call read_atom or read_num.
AtAtomOrNum ==
    /\ pc = "body"
    /\ char \in atom_start_chars \cup {"."} \cup num_start_chars

\* The last token is an Atom or Num whose text ends right before the cursor.
LastRunEndsAtCursor ==
    /\ tokens # <<>>
    /\ Last(tokens).type \in {"ATOM", "NUM"}
    /\ Last(starts) + Len(Last(tokens).value) = i

\* C10: when read_atom or read_num returns an Atom or Num, the cursor it
\* returns is that of the terminator, which is not in the token's text, the
\* text being the characters from the start of the scan up to it; when the
\* terminator is a parenthesis the next token emitted is that parenthesis,
\* with the same line; and (foo) yields [ParenOpen "(", Atom "foo",
\* ParenClose ")"], all on line 1.
C10_TerminatorLeftUnconsumed ==
    [][ /\ (AtAtomOrNum /\ pc' = "head" /\ Last(tokens').type # "ERR")
          => /\ i' < Len(text)
             /\ IsTerminator(text[i' + 1])
             /\ Last(tokens').value = SubSeq(text, i + 1, i')
             /\ \A n \in 1..Len(Last(tokens').value) :
                    ~ IsTerminator(Last(tokens').value[n])
        /\ (pc = "body" /\ IsParen(char) /\ LastRunEndsAtCursor)
          => tokens' = Append(tokens,
                 Token(IF char = "(" THEN "PAREN_OPEN" ELSE "PAREN_CLOSE",
                       << char >>, Last(tokens).line))
        /\ (text = << "(", "f", "o", "o", ")" >> /\ Ended')
          => /\ pc' = "done"
             /\ tokens' = << Token("PAREN_OPEN", << "(" >>, 1),
                             Token("ATOM", << "f", "o", "o" >>, 1),
                             Token("PAREN_CLOSE", << ")" >>, 1) >> ]_vars

C10_Witness ==
    /\ pc = "done"
    /\ text = << "(", "f", "o", "o", ")" >>
    /\ Len(tokens) = 3
    /\ tokens[2] = Token("ATOM", << "f", "o", "o" >>, 1)
    /\ starts = << 0, 1, 4 >>

AtCommentAtomOrNum == AtAtomOrNum \/ (pc = "body" /\ char = ";")

\* C12: the line counter starts at 1 and at every loop head it is 1 plus the
\* number of newlines of the buffer before the cursor; discard_comment,
\* read_atom and read_num count none.
C12_LineCounter ==
    [][ /\ pc' \in {"head", "body", "done"}
          => line' = 1 + NewlinesIn(0, i')
        /\ pc \in {"head", "body", "done"}
          => line = 1 + NewlinesIn(0, i)
        /\ AtCommentAtomOrNum => line' = line ]_vars

\* One newline was counted inside a string, one by the dispatcher.
C12_Witness ==
    /\ pc = "done"
    /\ line = 3
    /\ Len(tokens) = 2
    /\ tokens[1].type = "STR"
    /\ NewlineCount(tokens[1].value) = 1

\* -------------------------------------------------------------- C13 ---
\* The dispatcher is about to call one of the four sub-scanners.
AtSubScanner ==
    /\ pc = "body"
    /\ \/ char = ";"
       \/ char \in atom_start_chars \cup {"."}
       \/ char \in str_start_chars
       \/ char \in num_start_chars

\* The characters read_atom and read_num reject, as tokenize passes them.
AtomErrChars == str_start_chars \cup num_start_chars
NumErrChars == atom_start_chars \cup str_start_chars

\* C13: the cursor never moves backward, and every sub-scanner call that
\* returns hands back a cursor greater than the one it was called with, the
\* Err paths included: the character that selects read_atom or read_num is
\* neither an error character nor a terminator of that scanner.
C13_CursorAdvances ==
    [][ /\ i' >= i
        /\ (AtSubScanner /\ pc' = "head") => i' > i
        /\ (pc = "body" /\ char \in atom_start_chars \cup {"."})
             => (char \notin AtomErrChars /\ ~ IsTerminator(char))
        /\ (pc = "body" /\ char \in num_start_chars)
             => (char \notin NumErrChars /\ ~ IsTerminator(char)) ]_vars

\* An Err token whose scan began before the cursor it returned.
C13_Witness ==
    /\ pc = "head"
    /\ tokens # <<>>
    /\ Last(tokens).type = "ERR"
    /\ Last(starts) < i

\* -------------------------------------------------------------- C14 ---
\* The error characters of the scanner the dispatcher is about to call.
ErrCharsHere ==
    IF char \in num_start_chars THEN NumErrChars ELSE AtomErrChars

\* The step scans a new token from the cursor: it ends in IndexError, or it
\* appends a token of one of the given types whose scan began at the cursor.
ScansFromCursor(types) ==
    /\ i' > i
    /\ \/ pc' = "raised"
       \/ /\ pc' = "head"
          /\ Len(tokens') = Len(tokens) + 1
          /\ Last(tokens').type \in types
          /\ Last(starts') = i

Unmatched(c) ==
    /\ ~ (isspace(c) \/ c \in {";", "(", ")", "'", "."})
    /\ c \notin atom_start_chars \cup str_start_chars \cup num_start_chars

\* The dispatcher is at a character that none of its rules matches.
AtUnmatched == pc = "body" /\ Unmatched(char)

\* No character at or after cursor a is in the set stops.
NoneFrom(a, stops) == \A n \in a..(Len(text) - 1) : text[n + 1] \notin stops

\* The dispatcher is at a ";" with no newline after it.
AtUnterminatedComment == pc = "body" /\ char = ";" /\ NoneFrom(i, {"\n"})

\* The dispatcher is at a quote with no closing quote after it.
AtUnterminatedStr ==
    pc = "body" /\ char \in str_start_chars /\ NoneFrom(i + 1, str_start_chars)

\* The dispatcher is at an atom or number run that meets neither a
\* terminator nor an error character before the end of the buffer.
AtUnterminatedRun ==
    /\ AtAtomOrNum
    /\ \A n \in i..(Len(text) - 1) :
          ~ IsTerminator(text[n + 1]) /\ text[n + 1] \notin ErrCharsHere

AtUnterminated ==
    AtUnterminatedComment \/ AtUnterminatedStr \/ AtUnterminatedRun

NoTerminatorIn(s) == \A n \in 1..Len(s) : ~ IsTerminator(s[n])

\* C16: every ATOM token has a non-empty text with no digit, no quote, no
\* white space and no parenthesis, and is "'" or starts with a letter, a
\* permitted symbol or "."; every NUM token has a non-empty text that starts
\* with a digit and holds no letter, no permitted atom symbol, no quote, no
\* white space and no parenthesis.
C16_AtomAndNumContent ==
    \A k \in 1..Len(tokens) :
        LET v == tokens[k].value IN
        /\ tokens[k].type = "ATOM"
             => /\ Len(v) >= 1
                /\ NoTerminatorIn(v)
                /\ \A n \in 1..Len(v) :
                       v[n] \notin num_start_chars \cup str_start_chars
                /\ v = << "'" >> \/ v[1] \in atom_start_chars \cup {"."}
        /\ tokens[k].type = "NUM"
             => /\ Len(v) >= 1
                /\ NoTerminatorIn(v)
                /\ v[1] \in num_start_chars
                /\ \A n \in 1..Len(v) :
                       v[n] \notin atom_start_chars \cup str_start_chars

\* An atom run, and then a number run.
C16_Witness ==
    /\ Len(tokens) = 2
    /\ tokens[1].type = "ATOM"
    /\ tokens[1].value # << "'" >>
    /\ tokens[2].type = "NUM"

C18_AppendOnlyInSourceOrder ==
    [][ /\ \/ tokens' = tokens
           \/ /\ Len(tokens') = Len(tokens) + 1
              /\ SubSeq(tokens', 1, Len(tokens)) = tokens
        /\ Len(starts') = Len(tokens')
        /\ \A j, k \in 1..Len(starts') : j < k => starts'[j] < starts'[k]
      ]_vars

\* Three tokens, the second from a sub-scanner.
C18_Witness ==
    /\ pc = "done"
    /\ Len(tokens) = 3
    /\ tokens[2].type \in {"ATOM", "NUM", "STR"}
    /\ Len(tokens[2].value) >= 2

\* -------------------------------------------------------------- C19 ---
\* The character c ends a run of the scanner the dispatcher is about to
\* call: a terminator or one of that scanner's error characters.
StopsRun(c) == IsTerminator(c) \/ c \in ErrCharsHere

\* The cursor of the first character at or after cursor a that ends the run.
FirstStop(a) ==
    CHOOSE n \in a..(Len(text) - 1) :
        /\ StopsRun(text[n + 1])
        /\ \A m \in a..(n - 1) : ~ StopsRun(text[m + 1])

\* C19: the rules for ";" and "'" apply at a token boundary only: inside an
\* atom or number run they are appended like any other character, no
\* comment is skipped and no token of their own is made, and the run goes on
\* to the next terminator or error character; a;b and a blank give one Atom
\* a;b, and 1'2 and a blank give one Num 1'2.
C19_SemicolonAndQuoteInsideRun ==
    [][ /\ (AtAtomOrNum /\ pc' = "head")
          => /\ ~ StopsRun(";") /\ ~ StopsRun("'")
             /\ i' = FirstStop(i)
             /\ Len(tokens') = Len(tokens) + 1
             /\ Last(tokens').type # "ERR"
                  => Last(tokens').value = SubSeq(text, i + 1, i')
             /\ cmtLine' = cmtLine /\ cmtEnd' = cmtEnd
        /\ (text = << "a", ";", "b", " " >> /\ Ended')
          => /\ pc' = "done"
             /\ tokens' = << Token("ATOM", << "a", ";", "b" >>, 1) >>
        /\ (text = << "1", "'", "2", " " >> /\ Ended')
          => /\ pc' = "done"
             /\ tokens' = << Token("NUM", << "1", "'", "2" >>, 1) >> ]_vars

C19_Witness ==
    /\ pc = "done"
    /\ tokens = << Token("ATOM", << "a", ";", "b" >>, 1) >>
    /\ cmtLine = 0

====
